---- MODULE Spec2Model ----
(***************************************************************************)
(* State-machine model of the S3 image processor (src/index.js): the      *)
(* module-level credential check, S3ImageProcessor.run and the methods it *)
(* drives (initialize, listImages, downloadImage, processImage,           *)
(* uploadImage, displayResults, cleanup).                                 *)
(*                                                                         *)
(* Object keys are sequences of tokens in which "/", "." and "-" are      *)
(* tokens of their own, so that path.extname and path.basename are        *)
(* computed from the key as Node computes them; every other token is a    *)
(* run of letters, digits and underscores.                                *)
(***************************************************************************)
EXTENDS Integers, Sequences, FiniteSets, TLC

VARIABLES
    env,              \* process.env: which credential variables are set, ambient provider
    answers,          \* what the user types at the prompts of initialize()
    bucket,           \* keys of the objects stored in the S3 bucket
    folderPath,       \* this.folderPath
    bucketName,       \* this.bucketName
    makePublic,       \* this.makePublic
    tempDir,          \* this.tempDir on disk: "unset", "exists" or "removed"
    staged,           \* names of the files inside the temporary directory
    pc,               \* position of the process
    images,           \* processAllImages: images (keys, in listing order)
    i,                \* processAllImages: loop index (1-based)
    s,                \* processImage: index of the size being produced
    j,                \* processAllImages: index of the processed image being uploaded
    localPath,        \* processAllImages: localPath (file name inside tempDir)
    processedImages,  \* processImage: results / processAllImages: processedImages
    uploadResults,    \* processAllImages: uploadResults
    allResults,       \* processAllImages: allResults
    results,          \* run: results (undefined or the list processAllImages returned)
    summary,          \* the totals displayResults printed
    exitCode,         \* exit status of the process
    liveRaw,          \* keys whose downloaded Buffer is referenced (downloadImage)
    fetchLog,         \* GetObject calls of the run, in order
    putLog,           \* PutObject calls of the run, in order
    events,           \* S3 and sharp calls of the run, in the order they start
    hist,             \* per listed object: what happened to its fetch and variants
    fatal,            \* "none", "credentials" or "listing"
    faults,           \* number of failures injected so far
    run,              \* number of the current execution of the program
    writtenBy,        \* per finished execution: keys its PutObject calls wrote
    bucketAfter       \* per finished execution: keys in the bucket at its end

vars == <<env, answers, events, bucket, folderPath, bucketName, makePublic, tempDir, staged, pc,
          images, i, s, j, localPath, processedImages, uploadResults,
          allResults, results, summary, exitCode, liveRaw, fetchLog, putLog,
          hist, fatal, faults, run, writtenBy, bucketAfter>>

(***************************************************************************)
(* Bounds                                                                  *)
(***************************************************************************)
MaxBucket == 2     \* objects in the bucket before the first execution
MaxFaults == 2     \* failures of S3 / sharp calls injected in one execution
MaxRuns == 2       \* executions of the program in a row (re-processing)

(***************************************************************************)
(* Keys                                                                    *)
(***************************************************************************)
\* Tokens in byte order ("-" < "." < "/" < digits < upper case < "_" < lower case).
TokenOrder ==
    << "-", ".", "/", "JPG", "P", "a", "b", "default", "fhd_1920x1080",
       "hd_1280x720", "jpg", "notes", "photo", "sd_320x180", "txt", "x",
       "y" >>

Rank(t) == CHOOSE k \in 1..Len(TokenOrder) : TokenOrder[k] = t

\* String.prototype.toLowerCase on one token.
toLowerCase(t) == IF t = "JPG" THEN "jpg" ELSE t

KeyUniverse ==
    { << "a", "/", "b", "/", "photo", ".", "jpg" >>,
      << "a", "/", "b", "/", "notes", ".", "txt" >>,
      << "a", "/", "photo", ".", "JPG" >>,
      << "a", ".", "jpg" >>,
      << "a", "-", "default", ".", "jpg" >>,
      << "P", "/", "x", "/", "a", ".", "jpg" >>,
      << "P", "/", "y", "/", "a", ".", "jpg" >> }

FolderPaths ==
    { << >>, << "a" >>, << "a", "/", "b" >>, << "P" >> }

\* Names typed at the bucket prompt.
BucketNames == { "media" }

\* Values of AWS_REGION, "" when it is unset (the client then takes its
\* default region).
Regions == { "" }

\* Index of the last token of key equal to t, 0 when there is none.
LastIndexOf(key, t) ==
    LET hits == { k \in 1..Len(key) : key[k] = t }
    IN  IF hits = {} THEN 0 ELSE CHOOSE k \in hits : \A m \in hits : m <= k

\* path.dirname(key) followed by "/", empty for a key without "/".
ParentPath(key) == SubSeq(key, 1, LastIndexOf(key, "/"))

\* path.basename(key)
LastSegment(key) == SubSeq(key, LastIndexOf(key, "/") + 1, Len(key))

\* path.extname(key): from the last "." of the last segment, empty when the
\* segment has no "." or only a leading one.
extname(key) ==
    LET seg == LastSegment(key)
        d   == LastIndexOf(seg, ".")
    IN  IF d <= 1 THEN << >> ELSE SubSeq(seg, d, Len(seg))

\* path.basename(key, ext)
basename(key, ext) ==
    LET seg == LastSegment(key)
        n   == Len(seg) - Len(ext)
    IN  IF /\ ext # << >>
           /\ n >= 1
           /\ SubSeq(seg, n + 1, Len(seg)) = ext
        THEN SubSeq(seg, 1, n)
        ELSE seg

\* this.imageExtensions
imageExtensions ==
    { << ".", "jpg" >>, << ".", "jpeg" >>, << ".", "png" >>,
      << ".", "gif" >>, << ".", "bmp" >>, << ".", "webp" >> }

\* this.sizes (0 stands for null)
sizes ==
    << [name |-> "default",       width |-> 0,    height |-> 0],
       [name |-> "sd_320x180",    width |-> 320,  height |-> 180],
       [name |-> "hd_1280x720",   width |-> 1280, height |-> 720],
       [name |-> "fhd_1920x1080", width |-> 1920, height |-> 1080] >>

SizeNames == { sizes[k].name : k \in 1..Len(sizes) }

\* key starts with the tokens of prefix
StartsWith(key, prefix) ==
    /\ Len(prefix) <= Len(key)
    /\ SubSeq(key, 1, Len(prefix)) = prefix

RECURSIVE LexLess(_, _)
LexLess(a, b) ==
    IF a = << >> THEN b # << >>
    ELSE IF b = << >> THEN FALSE
    ELSE IF a[1] = b[1] THEN LexLess(Tail(a), Tail(b))
    ELSE Rank(a[1]) < Rank(b[1])

\* ListObjectsV2 returns keys in ascending byte order.
RECURSIVE SortKeys(_)
SortKeys(S) ==
    IF S = {} THEN << >>
    ELSE LET m == CHOOSE x \in S : \A y \in S \ {x} : LexLess(x, y)
         IN  << m >> \o SortKeys(S \ {m})

\* listImages: the Prefix of the request and the extension filter.
ListPrefix(folder) == IF folder # << >> THEN folder \o << "/" >> ELSE << >>

IsImageKey(key) ==
    LET ext == extname(key)
    IN  [k \in 1..Len(ext) |-> toLowerCase(ext[k])] \in imageExtensions

listImages(objects, folder) ==
    SortKeys({ key \in objects :
                 /\ StartsWith(key, ListPrefix(folder))
                 /\ IsImageKey(key) })

\* Variant of newKey in which the name depends on the execution.
derivedKey_PerRun(folder, originalKey, sizeName) ==
    LET extension == extname(originalKey)
        baseName  == basename(originalKey, extension)
        suffix    == IF run = 1 THEN << "-", sizeName >>
                     ELSE << "-", sizeName, "-", sizeName >>
    IN  IF folder # << >>
        THEN folder \o << "/" >> \o baseName \o suffix \o extension
        ELSE baseName \o suffix \o extension

\* processImage: newKey
derivedKey(folder, originalKey, sizeName) ==
    LET extension == extname(originalKey)
        baseName  == basename(originalKey, extension)
    IN  IF folder # << >>
        THEN folder \o << "/" >> \o baseName \o << "-", sizeName >> \o extension
        ELSE baseName \o << "-", sizeName >> \o extension

(***************************************************************************)
(* Initial state: the environment is chosen, the processor is as its       *)
(* constructor leaves it.                                                  *)
(***************************************************************************)
\* run: results before processAllImages has returned
NoResults == [returned |-> FALSE, defined |-> FALSE, list |-> << >>]

\* nothing printed by displayResults yet
NoSummary == [printed |-> FALSE, images |-> 0, versions |-> 0]

\* per listed object: nothing has happened yet
NoHistory ==
    [fetch |-> "none", xOk |-> {}, xFail |-> {}, putOk |-> {}, putFail |-> {}]

\* process.env and the credential providers around the process.  The SDK
\* consults an ambient provider (CLI profile, instance role) only when the
\* two variables do not give it credentials, so one is modelled only then.
Environments ==
    { e \in [keyId : BOOLEAN, secret : BOOLEAN, ambient : BOOLEAN,
             region : Regions] :
        e.ambient => ~(e.keyId /\ e.secret) }

Buckets == { B \in SUBSET KeyUniverse : Cardinality(B) <= MaxBucket }

InitProcessor ==
    /\ folderPath = << >>
    /\ bucketName = ""
    /\ events = << >>
    /\ makePublic = TRUE
    /\ tempDir = "unset"
    /\ staged = {}
    /\ pc = "start"
    /\ images = << >>
    /\ i = 0
    /\ s = 0
    /\ j = 0
    /\ localPath = << >>
    /\ processedImages = << >>
    /\ uploadResults = << >>
    /\ allResults = << >>
    /\ results = NoResults
    /\ summary = NoSummary
    /\ exitCode = 0
    /\ liveRaw = {}
    /\ fetchLog = << >>
    /\ putLog = << >>
    /\ hist = << >>
    /\ fatal = "none"
    /\ faults = 0
    /\ run = 1
    /\ writtenBy = << >>
    /\ bucketAfter = << >>

Init ==
    /\ env \in Environments
    /\ answers \in [bucketName : BucketNames, folderPath : FolderPaths,
                     makePublic : BOOLEAN]
    /\ bucket \in Buckets
    /\ InitProcessor

(***************************************************************************)
(* Module level: the credential check (lines 288-297)                      *)
(***************************************************************************)
\* Variant of the credential check that ends the process only when both
\* variables are unset.
CredentialCheck_BothUnset ==
    /\ pc = "start"
    /\ IF ~env.keyId /\ ~env.secret
       THEN /\ pc' = "exited"
            /\ exitCode' = 1
            /\ fatal' = "credentials"
       ELSE /\ pc' = "initialize"
            /\ UNCHANGED <<exitCode, fatal>>
    /\ UNCHANGED <<env, answers, events, bucket, folderPath, bucketName,
                   makePublic, tempDir, staged, images, i, s, j, localPath,
                   processedImages, uploadResults, allResults, results,
                   summary, liveRaw, fetchLog, putLog, hist, faults, run,
                   writtenBy, bucketAfter>>

CredentialCheck ==
    /\ pc = "start"
    /\ IF ~env.keyId \/ ~env.secret
       THEN /\ pc' = "exited"
            /\ exitCode' = 1
            /\ fatal' = "credentials"
       ELSE /\ pc' = "initialize"
            /\ UNCHANGED <<exitCode, fatal>>
    /\ UNCHANGED <<env, answers, events, bucket, folderPath, bucketName, makePublic, tempDir,
                   staged, images, i, s, j, localPath, processedImages,
                   uploadResults, allResults, results, summary, liveRaw,
                   fetchLog, putLog, hist, faults, run, writtenBy,
                   bucketAfter>>

(***************************************************************************)
(* initialize(): the prompts are answered, the temporary directory is made *)
(***************************************************************************)
Initialize ==
    /\ pc = "initialize"
    /\ folderPath' = answers.folderPath
    /\ bucketName' = answers.bucketName
    /\ makePublic' = answers.makePublic
    /\ tempDir' = "exists"
    /\ pc' = "list"
    /\ UNCHANGED <<env, answers, events, bucket, staged, images, i, s, j, localPath,
                   processedImages, uploadResults, allResults, results,
                   summary, exitCode, liveRaw, fetchLog, putLog, hist, fatal,
                   faults, run, writtenBy, bucketAfter>>

(***************************************************************************)
(* listImages() inside processAllImages()                                  *)
(***************************************************************************)
\* The listing call answers; an empty list makes processAllImages return
\* undefined and run() go on to its finally block.
ListOk ==
    /\ pc = "list"
    /\ images' = listImages(bucket, folderPath)
    /\ hist' = [k \in 1..Len(images') |-> NoHistory]
    /\ IF Len(images') = 0
       THEN /\ results' = [returned |-> TRUE, defined |-> FALSE, list |-> << >>]
            /\ pc' = "cleanup"
            /\ i' = i
       ELSE /\ results' = results
            /\ pc' = "download"
            /\ i' = 1
    /\ events' = Append(events, [op |-> "list", obj |-> 0, size |-> ""])
    /\ UNCHANGED <<env, answers, bucket, folderPath, bucketName, makePublic, tempDir,
                   staged, s, j, localPath, processedImages, uploadResults,
                   allResults, summary, exitCode, liveRaw, fetchLog, putLog,
                   fatal, faults, run, writtenBy, bucketAfter>>

\* The listing call throws: listImages rethrows, processAllImages lets it
\* through, run() catches it and calls process.exit(1), which ends the
\* process before the finally block is entered.
ListFail ==
    /\ pc = "list"
    /\ faults < MaxFaults
    /\ faults' = faults + 1
    /\ fatal' = "listing"
    /\ exitCode' = 1
    /\ pc' = "exited"
    /\ events' = Append(events, [op |-> "list", obj |-> 0, size |-> ""])
    /\ UNCHANGED <<env, answers, bucket, folderPath, bucketName, makePublic, tempDir,
                   staged, images, i, s, j, localPath, processedImages,
                   uploadResults, allResults, results, summary, liveRaw,
                   fetchLog, putLog, hist, run, writtenBy, bucketAfter>>

(***************************************************************************)
(* processAllImages(): the loop over images                                *)
(***************************************************************************)
\* Variant of the end of an iteration that leaves the loop.
LoopNext_Break ==
    /\ i' = i + 1
    /\ s' = 0
    /\ j' = 0
    /\ localPath' = << >>
    /\ processedImages' = << >>
    /\ uploadResults' = << >>
    /\ pc' = "return"

\* Variant of the end of an iteration that keeps the encoded buffers.
LoopNext_Retain ==
    /\ i' = i + 1
    /\ s' = 0
    /\ j' = 0
    /\ localPath' = << >>
    /\ processedImages' = processedImages
    /\ uploadResults' = << >>
    /\ pc' = IF i + 1 > Len(images) THEN "return" ELSE "download"

\* End of one iteration of the for loop: the block's constants go out of
\* scope and the loop moves to the next image or ends.
LoopNext ==
    /\ i' = i + 1
    /\ s' = 0
    /\ j' = 0
    /\ localPath' = << >>
    /\ processedImages' = << >>
    /\ uploadResults' = << >>
    /\ pc' = IF i + 1 > Len(images) THEN "return" ELSE "download"

\* downloadImage: GetObject answers and the body is read into a Buffer.
DownloadOk ==
    /\ pc = "download"
    /\ images[i] \in bucket
    /\ fetchLog' = Append(fetchLog, images[i])
    /\ liveRaw' = liveRaw \cup {images[i]}
    /\ pc' = "write"
    /\ events' = Append(events, [op |-> "get", obj |-> i, size |-> ""])
    /\ UNCHANGED <<env, answers, bucket, folderPath, bucketName, makePublic, tempDir,
                   staged, images, i, s, j, localPath, processedImages,
                   uploadResults, allResults, results, summary, exitCode,
                   putLog, hist, fatal, faults, run, writtenBy, bucketAfter>>

\* downloadImage: the Buffer is written to tempDir/basename(key) and the
\* path is returned; processImage starts (its results array is empty).
WriteFile ==
    /\ pc = "write"
    /\ staged' = staged \cup {LastSegment(images[i])}
    /\ localPath' = LastSegment(images[i])
    /\ liveRaw' = liveRaw \ {images[i]}
    /\ hist' = [hist EXCEPT ![i].fetch = "ok"]
    /\ s' = 1
    /\ pc' = "transcode"
    /\ UNCHANGED <<env, answers, events, bucket, folderPath, bucketName, makePublic, tempDir,
                   images, i, j, processedImages, uploadResults, allResults,
                   results, summary,
                   exitCode, fetchLog, putLog, fatal, faults, run, writtenBy,
                   bucketAfter>>

\* downloadImage throws: the catch of the loop body logs it.
DownloadFail ==
    /\ pc = "download"
    /\ faults < MaxFaults
    /\ faults' = faults + 1
    /\ fetchLog' = Append(fetchLog, images[i])
    /\ hist' = [hist EXCEPT ![i].fetch = "failed"]
    /\ LoopNext
    /\ events' = Append(events, [op |-> "get", obj |-> i, size |-> ""])
    /\ UNCHANGED <<env, answers, bucket, folderPath, bucketName, makePublic, tempDir,
                   staged, images, allResults, results, summary, exitCode,
                   liveRaw, putLog, fatal, run, writtenBy, bucketAfter>>

(***************************************************************************)
(* processImage(): one pass of the loop over this.sizes                    *)
(***************************************************************************)
\* After the last size processImage returns and the upload loop starts.
SizeNext ==
    /\ s' = s + 1
    /\ IF s + 1 > Len(sizes)
       THEN /\ pc' = "upload"
            /\ j' = 1
            /\ uploadResults' = << >>
       ELSE UNCHANGED <<pc, j, uploadResults>>
\* Variant of a successful transcode that puts the buffer in front of results.
TranscodeOk_Unshift ==
    /\ pc = "transcode"
    /\ s <= Len(sizes)
    /\ localPath \in staged
    /\ processedImages' =
           << [key    |-> derivedKey(folderPath, images[i], sizes[s].name),
               size   |-> sizes[s].name,
               source |-> images[i]] >> \o processedImages
    /\ hist' = [hist EXCEPT ![i].xOk = @ \cup {sizes[s].name}]
    /\ SizeNext
    /\ events' = Append(events, [op |-> "transcode", obj |-> i, size |-> sizes[s].name])
    /\ UNCHANGED <<env, answers, bucket, folderPath, bucketName, makePublic,
                   tempDir, staged, images, i, localPath, allResults, results,
                   summary, exitCode, liveRaw, fetchLog, putLog, fatal, faults,
                   run, writtenBy, bucketAfter>>

TranscodeOk ==
    /\ pc = "transcode"
    /\ s <= Len(sizes)
    /\ localPath \in staged
    /\ processedImages' =
           Append(processedImages,
                  [key    |-> derivedKey(folderPath, images[i], sizes[s].name),
                   size   |-> sizes[s].name,
                   source |-> images[i]])
    /\ hist' = [hist EXCEPT ![i].xOk = @ \cup {sizes[s].name}]
    /\ SizeNext
    /\ events' = Append(events, [op |-> "transcode", obj |-> i, size |-> sizes[s].name])
    /\ UNCHANGED <<env, answers, bucket, folderPath, bucketName, makePublic, tempDir,
                   staged, images, i, localPath, allResults, results, summary,
                   exitCode, liveRaw, fetchLog, putLog, fatal, faults, run,
                   writtenBy, bucketAfter>>

\* sharp throws: the catch inside the loop logs it, nothing is pushed.
TranscodeFail ==
    /\ pc = "transcode"
    /\ s <= Len(sizes)
    /\ faults < MaxFaults
    /\ faults' = faults + 1
    /\ hist' = [hist EXCEPT ![i].xFail = @ \cup {sizes[s].name}]
    /\ SizeNext
    /\ events' = Append(events, [op |-> "transcode", obj |-> i, size |-> sizes[s].name])
    /\ UNCHANGED <<env, answers, bucket, folderPath, bucketName, makePublic, tempDir,
                   staged, images, i, localPath, processedImages, allResults,
                   results, summary, exitCode, liveRaw, fetchLog, putLog,
                   fatal, run, writtenBy, bucketAfter>>

(***************************************************************************)
(* uploadImage() inside the upload loop of processAllImages()              *)
(***************************************************************************)
\* uploadImage: the ACL of the request and the location it returns.
PutAcl(public) == IF public THEN "public-read" ELSE "none"

\* The region of the client: AWS_REGION, or the default when it is unset.
ClientRegion == IF env.region # "" THEN env.region ELSE "us-east-1"
\* Variant of the returned location that is always the public URL.
Location_AlwaysUrl(public, key) ==
    [scheme |-> "https",
     host   |-> << bucketName, "s3", ClientRegion, "amazonaws", "com" >>,
     key    |-> key]

Location(public, key) ==
    IF public
    THEN [scheme |-> "https",
          host   |-> << bucketName, "s3", ClientRegion, "amazonaws", "com" >>,
          key    |-> key]
    ELSE [scheme |-> "s3", host |-> << bucketName >>, key |-> key]

UploadOk ==
    /\ pc = "upload"
    /\ j <= Len(processedImages)
    /\ LET processed == processedImages[j]
       IN  /\ bucket' = bucket \cup {processed.key}
           /\ putLog' = Append(putLog,
                               [bucket |-> bucketName,
                                key    |-> processed.key,
                                source |-> processed.source,
                                size   |-> processed.size,
                                acl    |-> PutAcl(makePublic),
                                ok     |-> TRUE])
           /\ uploadResults' =
                  Append(uploadResults,
                         [size |-> processed.size,
                          key  |-> processed.key,
                          url  |-> Location(makePublic, processed.key)])
           /\ hist' = [hist EXCEPT ![i].putOk = @ \cup {processed.size}]
    /\ j' = j + 1
    /\ events' = Append(events, [op |-> "put", obj |-> i, size |-> processedImages[j].size])
    /\ UNCHANGED <<env, answers, folderPath, bucketName, makePublic, tempDir, staged, pc,
                   images, i, s, localPath, processedImages, allResults,
                   results, summary, exitCode, liveRaw, fetchLog, fatal,
                   faults, run, writtenBy, bucketAfter>>

\* Variant of a failed PutObject whose exception reaches the catch of run().
UploadFail_Rethrow ==
    /\ pc = "upload"
    /\ j <= Len(processedImages)
    /\ faults < MaxFaults
    /\ faults' = faults + 1
    /\ LET processed == processedImages[j]
       IN  /\ putLog' = Append(putLog,
                               [bucket |-> bucketName,
                                key    |-> processed.key,
                                source |-> processed.source,
                                size   |-> processed.size,
                                acl    |-> PutAcl(makePublic),
                                ok     |-> FALSE])
           /\ hist' = [hist EXCEPT ![i].putFail = @ \cup {processed.size}]
    /\ exitCode' = 1
    /\ pc' = "exited"
    /\ events' = Append(events, [op |-> "put", obj |-> i, size |-> processedImages[j].size])
    /\ UNCHANGED <<env, answers, bucket, folderPath, bucketName, makePublic, tempDir,
                   staged, images, i, s, j, localPath, processedImages,
                   uploadResults, allResults, results, summary, liveRaw,
                   fetchLog, fatal, run, writtenBy, bucketAfter>>

\* PutObject throws: the exception leaves the upload loop and is caught by
\* the catch of the loop body, after which the loop goes to the next image.
UploadFail ==
    /\ pc = "upload"
    /\ j <= Len(processedImages)
    /\ faults < MaxFaults
    /\ faults' = faults + 1
    /\ LET processed == processedImages[j]
       IN  /\ putLog' = Append(putLog,
                               [bucket |-> bucketName,
                                key    |-> processed.key,
                                source |-> processed.source,
                                size   |-> processed.size,
                                acl    |-> PutAcl(makePublic),
                                ok     |-> FALSE])
           /\ hist' = [hist EXCEPT ![i].putFail = @ \cup {processed.size}]
    /\ LoopNext
    /\ events' = Append(events, [op |-> "put", obj |-> i, size |-> processedImages[j].size])
    /\ UNCHANGED <<env, answers, bucket, folderPath, bucketName, makePublic, tempDir,
                   staged, images, allResults, results, summary, exitCode,
                   liveRaw, fetchLog, fatal, run, writtenBy, bucketAfter>>

\* The upload loop is over: the outcome is pushed and the local file removed.
FinishObject ==
    /\ pc = "upload"
    /\ j > Len(processedImages)
    /\ allResults' = Append(allResults,
                            [original |-> images[i], processed |-> uploadResults])
    /\ staged' = staged \ {localPath}
    /\ LoopNext
    /\ UNCHANGED <<env, answers, events, bucket, folderPath, bucketName, makePublic, tempDir,
                   images, results, summary, exitCode, liveRaw, fetchLog,
                   putLog, hist, fatal, faults, run, writtenBy, bucketAfter>>

(***************************************************************************)
(* run(): after processAllImages                                           *)
(***************************************************************************)
\* processAllImages returns allResults; run() displays a non-empty list.
ReturnResults ==
    /\ pc = "return"
    /\ results' = [returned |-> TRUE, defined |-> TRUE, list |-> allResults]
    /\ pc' = IF Len(allResults) > 0 THEN "display" ELSE "cleanup"
    /\ UNCHANGED <<env, answers, events, bucket, folderPath, bucketName, makePublic, tempDir,
                   staged, images, i, s, j, localPath, processedImages,
                   uploadResults, allResults, summary, exitCode, liveRaw,
                   fetchLog, putLog, hist, fatal, faults, run, writtenBy,
                   bucketAfter>>

RECURSIVE TotalVersions(_)
TotalVersions(list) ==
    IF list = << >> THEN 0
    ELSE Len(Head(list).processed) + TotalVersions(Tail(list))

displayResults ==
    /\ pc = "display"
    /\ summary' = [printed  |-> TRUE,
                   images   |-> Len(results.list),
                   versions |-> TotalVersions(results.list)]
    /\ pc' = "cleanup"
    /\ UNCHANGED <<env, answers, events, bucket, folderPath, bucketName, makePublic, tempDir,
                   staged, images, i, s, j, localPath, processedImages,
                   uploadResults, allResults, results, exitCode, liveRaw,
                   fetchLog, putLog, hist, fatal, faults, run, writtenBy,
                   bucketAfter>>

\* The finally block of run(): the temporary directory is removed with what
\* it holds, and the process ends with status 0.
cleanup ==
    /\ pc = "cleanup"
    /\ tempDir' = "removed"
    /\ staged' = {}
    /\ pc' = "exited"
    /\ writtenBy' = Append(writtenBy, { putLog[k].key : k \in { m \in 1..Len(putLog) : putLog[m].ok } })
    /\ bucketAfter' = Append(bucketAfter, bucket)
    /\ UNCHANGED <<env, answers, events, bucket, folderPath, bucketName, makePublic, images, i, s,
                   j, localPath, processedImages, uploadResults, allResults,
                   results, summary, exitCode, liveRaw, fetchLog, putLog,
                   hist, fatal, faults, run>>

\* The program is started again on the same bucket with the same answers.
Rerun ==
    /\ pc = "exited"
    /\ exitCode = 0
    /\ run < MaxRuns
    /\ run' = run + 1
    /\ folderPath' = << >>
    /\ makePublic' = TRUE
    /\ tempDir' = "unset"
    /\ staged' = {}
    /\ pc' = "start"
    /\ images' = << >>
    /\ i' = 0
    /\ s' = 0
    /\ j' = 0
    /\ localPath' = << >>
    /\ processedImages' = << >>
    /\ uploadResults' = << >>
    /\ allResults' = << >>
    /\ results' = NoResults
    /\ summary' = NoSummary
    /\ liveRaw' = {}
    /\ fetchLog' = << >>
    /\ putLog' = << >>
    /\ hist' = << >>
    /\ events' = << >>
    /\ bucketName' = ""
    /\ UNCHANGED <<env, answers, bucket, exitCode, fatal, faults, writtenBy,
                   bucketAfter>>

(***************************************************************************)
(* Specifications                                                          *)
(***************************************************************************)
\* One execution, in which S3 and sharp calls may fail.
Next ==
    \/ CredentialCheck
    \/ Initialize
    \/ ListOk
    \/ ListFail
    \/ DownloadOk
    \/ WriteFile
    \/ DownloadFail
    \/ TranscodeOk
    \/ TranscodeFail
    \/ UploadOk
    \/ UploadFail
    \/ FinishObject
    \/ ReturnResults
    \/ displayResults
    \/ cleanup

Spec == Init /\ [][Next]_vars

\* Executions in a row on the same bucket, every call succeeding.
InitRerun ==
    /\ Init
    /\ env.keyId
    /\ env.secret

NextRerun ==
    \/ CredentialCheck
    \/ Initialize
    \/ ListOk
    \/ DownloadOk
    \/ WriteFile
    \/ TranscodeOk
    \/ UploadOk
    \/ FinishObject
    \/ ReturnResults
    \/ displayResults
    \/ cleanup
    \/ Rerun

SpecRerun == InitRerun /\ [][NextRerun]_vars

\* The values the variables take.
TypeOK ==
    /\ pc \in {"start", "initialize", "list", "download", "write", "transcode",
               "upload", "return", "display", "cleanup", "exited"}
    /\ tempDir \in {"unset", "exists", "removed"}
    /\ exitCode \in {0, 1}
    /\ fatal \in {"none", "credentials", "listing"}
    /\ faults \in 0..MaxFaults
    /\ run \in 1..MaxRuns
    /\ i \in 0..(Len(images) + 1)
    /\ s \in 0..(Len(sizes) + 1)
    /\ Len(hist) \in {0, Len(images)}

(***************************************************************************)
(* Properties                                                              *)
(***************************************************************************)
Objects == 1..Len(hist)

\* The execution ended and no fatal error occurred.
Completed == pc = "exited" /\ fatal = "none"

\* Positions of the entries of allResults for the k-th listed object.
Outcomes(k) == { m \in 1..Len(allResults) : allResults[m].original = images[k] }

\* Variant names recorded in the outcome(s) of the k-th listed object.
RecordedSizes(k) ==
    UNION { { allResults[m].processed[n].size :
                n \in 1..Len(allResults[m].processed) } : m \in Outcomes(k) }

IsPrefix(a, b) == Len(a) <= Len(b) /\ SubSeq(b, 1, Len(a)) = a

\* C1: publish failures are isolated per variant: when the fetch of an
\* object succeeded and the publish of one of its variants failed, every
\* other transcoded variant has still been handed to publish and the object's
\* outcome records exactly the variants whose publish succeeded.
C1_PublishIsolated ==
    Completed =>
        \A k \in Objects :
            (hist[k].fetch = "ok" /\ hist[k].putFail # {}) =>
                /\ hist[k].xOk \subseteq (hist[k].putOk \cup hist[k].putFail)
                /\ Cardinality(Outcomes(k)) = 1
                /\ RecordedSizes(k) = hist[k].putOk

\* C2: transcode failures are isolated per variant: when the fetch of an
\* object succeeded and some variants failed to transcode, every catalog
\* variant has been attempted, every variant whose publish succeeded is
\* recorded in the object's outcome, and a failed variant is neither
\* published nor recorded.
C2_TranscodeIsolated ==
    Completed =>
        \A k \in Objects :
            (hist[k].fetch = "ok" /\ hist[k].xFail # {}) =>
                /\ hist[k].xOk \cup hist[k].xFail = SizeNames
                /\ hist[k].putOk \subseteq RecordedSizes(k)
                /\ hist[k].xFail \cap
                     (hist[k].putOk \cup hist[k].putFail \cup RecordedSizes(k)) = {}

\* The part of C2 that concerns processImage alone: all four variants are
\* attempted whatever fails, and a variant that failed to transcode is never
\* handed to publish.
TranscodeLoopIsolated ==
    Completed =>
        \A k \in Objects :
            hist[k].fetch = "ok" =>
                /\ hist[k].xOk \cup hist[k].xFail = SizeNames
                /\ hist[k].xFail \cap
                     (hist[k].putOk \cup hist[k].putFail \cup RecordedSizes(k)) = {}

\* C3: once the listing has succeeded, the objects are fetched one by one in
\* listing order, each exactly once, whatever failed on earlier objects, and
\* the loop ends only after the last one, the process ending with status 0.
C3_EveryObjectAttempted ==
    (pc \in {"download", "write", "transcode", "upload", "return", "display",
             "cleanup"} \/ Completed) =>
        /\ IsPrefix(fetchLog, images)
        /\ Len(fetchLog) \in {i - 1, i}
        /\ pc \in {"return", "display", "cleanup", "exited"} =>
               (fetchLog = images /\ exitCode = 0)

C3_Witness ==
    /\ Completed
    /\ Len(images) = 2
    /\ fetchLog = images
    /\ \/ hist[1].fetch = "failed"
       \/ hist[1].putFail # {}

\* C4: when the execution ends without a fatal error, the result list holds
\* exactly one outcome per listed object, in listing order.
C4_OneOutcomePerObject ==
    Completed =>
        [k \in 1..Len(allResults) |-> allResults[k].original] = images

\* C5 (as stated): executed a second time with every step succeeding, the
\* program leaves the set of keys of the bucket as the first execution left it.
C5_KeySetUnchanged ==
    \A r \in 2..Len(bucketAfter) : bucketAfter[r] = bucketAfter[r - 1]

\* C5 (amended): a further execution writes again every key the previous one
\* wrote and removes none, and it adds keys whenever the previous one wrote
\* any, because it lists the derived objects as sources.
C5_SameKeysOverwritten ==
    \A r \in 2..Len(bucketAfter) :
        /\ writtenBy[r - 1] \subseteq writtenBy[r]
        /\ bucketAfter[r - 1] \subseteq bucketAfter[r]
        /\ writtenBy[r - 1] # {} => bucketAfter[r] # bucketAfter[r - 1]

C5_Witness ==
    /\ pc = "exited"
    /\ run = 2
    /\ Len(writtenBy) = 2
    /\ writtenBy[1] # {}

\* The derived key as the data model words it: the parent path of the source
\* key, its base name, "-" and the variant name, its extension.
KeyUnderParent(sourceKey, sizeName) ==
    LET extension == extname(sourceKey)
    IN  ParentPath(sourceKey) \o basename(sourceKey, extension)
            \o << "-", sizeName >> \o extension

\* C6: every key handed to publish is the source key's own parent path, the
\* base name, "-", the variant name and the extension, under every prefix.
C6_KeepsParentPath ==
    \A n \in 1..Len(putLog) :
        putLog[n].key = KeyUnderParent(putLog[n].source, putLog[n].size)

\* C7: in every final state in which the temporary directory had been
\* created, it has been removed.
C7_StagingRemoved ==
    (pc = "exited" /\ tempDir # "unset") => tempDir = "removed"

\* C8: when the listing succeeded and returned at least one object, the
\* summary has been printed by the time the process ends.
C8_SummaryPrinted ==
    (Completed /\ Len(images) >= 1) => summary.printed

CatalogPositions ==
    [name \in SizeNames |-> CHOOSE k \in 1..Len(sizes) : sizes[k].name = name]

CatalogIndex(name) == CatalogPositions[name]

\* Order of the calls made for one object.
Phase(op) == IF op = "get" THEN 1 ELSE IF op = "transcode" THEN 2 ELSE 3

\* C11: processing is strictly sequential: from one call to the next the
\* object never goes back and a fetch always opens a new object, so the calls
\* of an object all come before those of the next; within an object the
\* fetch is followed by the transcodes in catalog order and then by the
\* publishes in catalog order, and the successes of an outcome are in
\* catalog order.
C11_Sequential ==
    /\ \A n \in 2..Len(events) :
           LET before == events[n - 1]
               this   == events[n]
           IN  /\ before.obj <= this.obj
               /\ this.op = "get" => before.obj < this.obj
               /\ before.obj = this.obj =>
                      /\ Phase(before.op) <= Phase(this.op)
                      /\ before.op = this.op =>
                             CatalogIndex(before.size) < CatalogIndex(this.size)
    /\ \A k \in 1..Len(allResults) :
           \A n \in 2..Len(allResults[k].processed) :
               CatalogIndex(allResults[k].processed[n - 1].size)
                   < CatalogIndex(allResults[k].processed[n].size)

C11_Witness ==
    /\ Completed
    /\ Len(allResults) = 2
    /\ \A k \in 1..2 : Len(allResults[k].processed) >= 3
    /\ Len(events) >= 19

\* The two credential variables are both set.
ExplicitCredentials == env.keyId /\ env.secret

\* C12: with neither explicit credentials nor an ambient provider, the
\* process ends with a non-zero status at the credential check: no list, get
\* or put call has been made and the temporary directory was never created.
C12_NoCredentialsFatal ==
    (~ExplicitCredentials /\ ~env.ambient /\ pc # "start") =>
        /\ pc = "exited"
        /\ exitCode # 0
        /\ fatal = "credentials"
        /\ events = << >>
        /\ fetchLog = << >>
        /\ putLog = << >>
        /\ tempDir = "unset"

C12_Witness ==
    /\ ~env.keyId
    /\ ~env.secret
    /\ ~env.ambient
    /\ pc = "exited"
    /\ exitCode = 1

\* C13: with a credential variable unset but an ambient provider available,
\* start-up is not fatal: the process goes on to initialize and the listing.
C13_AmbientAccepted ==
    (~ExplicitCredentials /\ env.ambient /\ pc # "start") =>
        /\ fatal # "credentials"
        /\ exitCode = 0
        /\ pc # "exited"

\* The location r.url is the one for key r.key under the answers given at
\* the prompts.
LocationAsAnswered(r) ==
    /\ r.url.key = r.key
    /\ IF answers.makePublic
       THEN /\ r.url.scheme = "https"
            /\ r.url.host =
                   << answers.bucketName, "s3",
                      (IF env.region = "" THEN "us-east-1" ELSE env.region),
                      "amazonaws", "com" >>
       ELSE /\ r.url.scheme = "s3"
            /\ r.url.host = << answers.bucketName >>

C15_TotalsMatch ==
    summary.printed =>
        /\ summary.images = Len(fetchLog)
        /\ summary.versions =
               Cardinality({ n \in 1..Len(putLog) : putLog[n].ok })

\* The totals of the report agree with the recorded outcomes, and with the
\* run itself when no fetch and no publish failed.
TotalsMatchOutcomes ==
    summary.printed =>
        /\ summary.images = Len(allResults)
        /\ summary.versions = TotalVersions(allResults)
        /\ (\A k \in Objects : hist[k].fetch = "ok" /\ hist[k].putFail = {}) =>
               /\ summary.images = Len(fetchLog)
               /\ summary.versions =
                      Cardinality({ n \in 1..Len(putLog) : putLog[n].ok })

\* C16: when the processing of an object has ended, with or without a
\* failure, its file is gone from the temporary directory: the directory is
\* empty whenever the next fetch is about to start and when the loop has ended.
C16_NoStagedLeftover ==
    pc \in {"download", "return"} => staged = {}

\* The local file is removed when the object's iteration ran to its end, that
\* is when no PutObject of the object failed.
StagedOnlyAfterPublishFailure ==
    pc \in {"download", "return"} =>
        staged \subseteq
            { LastSegment(images[k]) :
                k \in { m \in Objects : hist[m].putFail # {} } }

\* Keys the PutObject calls of the run have written so far.
WrittenKeys == { putLog[n].key : n \in { m \in 1..Len(putLog) : putLog[m].ok } }

ListedKeys == { images[k] : k \in 1..Len(images) }

\* C17: a run never overwrites one of its own sources: no PutObject of the
\* run writes to a key that the run's listing returned as a source.
C17_NoSourceOverwritten ==
    WrittenKeys \cap ListedKeys = {}

\* C18: derived keys are collision-free across source objects: two PutObject
\* calls of a run with the same key were made for the same source key.
C18_NoCollision ==
    \A m, n \in 1..Len(putLog) :
        putLog[m].key = putLog[n].key => putLog[m].source = putLog[n].source

\* The listing is called once, only listed keys are fetched, each at most
\* once, and at most one PutObject per catalog variant is made for an object.
SnapshotOfListing ==
    /\ Cardinality({ n \in 1..Len(events) : events[n].op = "list" }) <= 1
    /\ \A n \in 1..Len(fetchLog) : fetchLog[n] \in ListedKeys
    /\ \A m, n \in 1..Len(fetchLog) : fetchLog[m] = fetchLog[n] => m = n
    /\ \A k \in 1..Len(images) :
           Cardinality({ n \in 1..Len(events) :
                           events[n].op = "put" /\ events[n].obj = k })
               <= Len(sizes)

\* C19: the run works on a snapshot of the listing and terminates: only keys
\* of the single listing are fetched, a key published during the run is not
\* fetched afterwards in that run, and the run makes at most one fetch and at
\* most four publishes per listed object.
C19_SnapshotAndBounded ==
    /\ SnapshotOfListing
    /\ pc = "download" => images[i] \notin WrittenKeys

====
